---- MODULE Spec2Model ----
(***************************************************************************)
(* A model of app.py: the Flask movie-rating application.                  *)
(*                                                                         *)
(* State: the three tables (User, Movie, Rating), one cookie session per   *)
(* client, whether the process is up, and the last request served with its *)
(* response.  One action per route handler; one action per way of starting *)
(* the process (imported by a WSGI server, or run as the main program).    *)
(*                                                                         *)
(* A session is modelled by the keys app.py itself writes (user, role);    *)
(* the keys Flask and Flask-WTF keep in it (flashed messages, CSRF token)  *)
(* are left out, and a flashed message is shown as part of the response.   *)
(* forms.py and models.py are not part of the source at hand: what a form  *)
(* requires, and the id and created_at a new row gets, follow the          *)
(* specification.                                                          *)
(***************************************************************************)
EXTENDS Integers, Sequences, FiniteSets, TLC

VARIABLES
    pc,        \* "down": process not running; "serving": app.run / WSGI serving
    users,     \* User table, rows in insertion order
    movies,    \* Movie table, a set of rows with unique id
    ratings,   \* Rating table, rows in insertion (id) order
    sessions,  \* client -> session dict (a function whose domain is the keys set)
    last,      \* the last request served and its response
    scenario   \* observer: how far the run has followed the documented scenario

vars == <<pc, users, movies, ratings, sessions, last, scenario>>

\* ---------------------------------------------------------------- bounds
MaxMovieId == 2    \* add_movie stops once the next id would exceed it
MaxRatings == 2    \* rate stops persisting once the table holds this many rows
MaxUsers == 4      \* the process stops restarting once the table holds this many rows

\* ------------------------------------------------------------ input sets
Clients == {"c1", "c2"}
None == "None"
NoRow == [none |-> TRUE]    \* what a query returns when no row matches
Usernames == {"admin", "viewer", "ghost", ""}
Passwords == {"admin123", "viewer123", ""}
Titles == {"Inception", "Heat"}
Descriptions == {"..."}
RaterNames == {"ann", ""}
MovieIds == 1..MaxMovieId
Clock == {1, 2}
MaxStars == 5
StarInputs == {MaxStars, MaxStars + 1}

\* ------------------------------------------------------------- sessions
EmptySession == [k \in {} |-> None]

session_get(s, k) == IF k \in DOMAIN s THEN s[k] ELSE None

\* mutant: session.setdefault(k, v), a key already present keeps its value
session_set_default(s, k, v) ==
    IF k \in DOMAIN s THEN s
    ELSE [x \in (DOMAIN s) \cup {k} |-> IF x = k THEN v ELSE s[x]]

session_set(s, k, v) == [x \in (DOMAIN s) \cup {k} |-> IF x = k THEN v ELSE s[x]]

session_pop(s, k) == [x \in (DOMAIN s) \ {k} |-> s[x]]

\* ------------------------------------------------- credential verifier
\* werkzeug's digest: one-way, never the plaintext itself.  The random salt is
\* left out: verification does not depend on which salt was drawn.
generate_password_hash(p) == <<"pbkdf2", p>>

\* mutant: the password is hashed by another method before the comparison
check_password_hash_md5(h, p) == h = <<"md5", p>>

check_password_hash(h, p) == h = generate_password_hash(p)

\* ---------------------------------------------------------- persistence
\* mutant: the filter is dropped, the first row is returned whatever its name
user_first_unfiltered(us, u) == IF Len(us) > 0 THEN us[1] ELSE NoRow

\* User.query.filter_by(username=u).first()
user_first(us, u) ==
    IF \E i \in 1..Len(us) : us[i].username = u
    THEN us[CHOOSE i \in 1..Len(us) :
                /\ us[i].username = u
                /\ \A j \in 1..(i - 1) : us[j].username # u]
    ELSE NoRow

SetMax(S) == CHOOSE x \in S : \A y \in S : y <= x

\* the id the store assigns to a new Movie row
NewMovieId(ms) == IF ms = {} THEN 1 ELSE SetMax({m.id : m \in ms}) + 1

\* Movie.query.all(): rows in id order
RECURSIVE MovieQueryAll(_)
MovieQueryAll(ms) ==
    IF ms = {} THEN << >>
    ELSE LET m == CHOOSE x \in ms : \A y \in ms : x.id <= y.id
         IN <<m>> \o MovieQueryAll(ms \ {m})

\* mutant: Movie.query.first(), the id is not part of the lookup
movie_get_first(ms, id) ==
    IF ms = {} THEN NoRow ELSE CHOOSE m \in ms : \A y \in ms : m.id <= y.id

\* Movie.query.get(id)
movie_get(ms, id) ==
    IF \E m \in ms : m.id = id THEN CHOOSE m \in ms : m.id = id ELSE NoRow

\* Rating.query.all(): rows in id order
RatingQueryAll(rs) == rs

SeqRange(s) == {s[i] : i \in 1..Len(s)}

IsSortedDesc(s) == \A i, j \in 1..Len(s) : i < j => s[i].created_at >= s[j].created_at

\* mutant: no order_by, the rows come back in insertion order
RatingsInsertionOrder(rs) == {rs}

\* the orders Rating.query.order_by(Rating.created_at.desc()).all() may return:
\* a row of the greatest created_at first (any of them, on a tie), then the rest
RECURSIVE LatestFirst(_)
LatestFirst(rows) ==
    IF rows = {} THEN {<< >>}
    ELSE UNION {{<<r>> \o rest : rest \in LatestFirst(rows \ {r})} :
                  r \in {x \in rows : \A y \in rows : x.created_at >= y.created_at}}

RatingsLatestFirst(rs) == LatestFirst(SeqRange(rs))

\* ------------------------------------------------------------ responses
NoResponse ==
    [client |-> None, route |-> None, before |-> EmptySession, status |-> None,
     target |-> None, flash |-> None, errors |-> FALSE, movies |-> << >>,
     ratings |-> << >>]

Response(c, route, status, target, flashed, ms, rs) ==
    [client |-> c, route |-> route, before |-> sessions[c], status |-> status,
     target |-> target, flash |-> flashed, errors |-> FALSE, movies |-> ms,
     ratings |-> rs]

\* form.errors once validate_on_submit() has run: only a submission that failed
\* validation leaves field errors on the form
form_errors(f, valid) == f.method = "POST" /\ ~valid

\* render_template(template, form=form, ...): the page shows the form's errors
RenderForm(c, route, template, errors, ms, rs) ==
    [Response(c, route, "render", template, None, ms, rs) EXCEPT !.errors = errors]

\* mutant: roles as a hierarchy, admin passes every guard
AccessDenied_AdminPassesAll(s, required) ==
    session_get(s, "role") \notin {required, "admin"}

\* mutant: only a session that holds some other role is turned away
AccessDenied_AnonymousPasses(s, required) ==
    "role" \in DOMAIN s /\ session_get(s, "role") # required

\* mutant: the guard asks only whether somebody is logged in
AccessDenied_AnyRolePasses(s, required) == "role" \notin DOMAIN s

\* the guard every role-gated handler opens with
AccessDenied(s, required) == session_get(s, "role") # required

\* mutant: the denial is an abort(403), not a redirect home
DeniedResponse_abort(c, route) ==
    Response(c, route, "abort", "403", "Access denied.", << >>, << >>)

DeniedResponse(c, route) ==
    Response(c, route, "redirect", "index", "Access denied.", << >>, << >>)

\* ------------------------------------------------------------- observer
\* The documented scenario, request by request.  scenario names the last step
\* of it the run has taken; any other step, by any client, ends it ("off").
NoForm == [method |-> "GET"]

ScenarioScript ==
    <<[at |-> "booted", route |-> "login", to |-> "admin_in",
       f |-> [method |-> "POST", username |-> "admin", password |-> "admin123"]],
      [at |-> "admin_in", route |-> "add_movie", to |-> "added",
       f |-> [method |-> "POST", title |-> "Inception", description |-> "..."]],
      [at |-> "added", route |-> "manage_movies", to |-> "listed", f |-> NoForm],
      [at |-> "listed", route |-> "logout", to |-> "logged_out", f |-> NoForm],
      [at |-> "logged_out", route |-> "login", to |-> "viewer_in",
       f |-> [method |-> "POST", username |-> "viewer", password |-> "viewer123"]],
      [at |-> "viewer_in", route |-> "manage_movies", to |-> "denied", f |-> NoForm]>>

Observe(c, route, f) ==
    IF c # "c1" \/ scenario = "off" THEN "off"
    ELSE LET hit == {i \in 1..Len(ScenarioScript) :
                        /\ ScenarioScript[i].at = scenario
                        /\ ScenarioScript[i].route = route
                        /\ ScenarioScript[i].f = f}
         IN IF hit # {} THEN ScenarioScript[CHOOSE i \in hit : TRUE].to ELSE "off"

ObserveStart == IF scenario = "start" THEN "booted" ELSE "off"

\* ------------------------------------------------------------ bootstrap
SeedAdmin ==
    [username |-> "admin", password |-> generate_password_hash("admin123"), role |-> "admin"]

SeedViewer ==
    [username |-> "viewer", password |-> generate_password_hash("viewer123"), role |-> "viewer"]

\* lines 24-34: seed the two default accounts unless a user named admin exists
Bootstrap(us) ==
    IF user_first(us, "admin") = NoRow THEN us \o <<SeedAdmin, SeedViewer>> ELSE us

\* mutant: the seeding without the existence test
Bootstrap_unconditional(us) == us \o <<SeedAdmin, SeedViewer>>

\* lines 198-208: the same seeding, run again under __main__
MainBootstrap(us) ==
    IF user_first(us, "admin") = NoRow THEN us \o <<SeedAdmin, SeedViewer>> ELSE us

\* before the first start: no database file, no cookies, nothing served
Init ==
    /\ pc = "down"
    /\ users = << >>
    /\ movies = {}
    /\ ratings = << >>
    /\ sessions = [c \in Clients |-> EmptySession]
    /\ last = NoResponse
    /\ scenario = "start"

\* The process (re)starts imported by a WSGI server: the module body runs.
\* The database file and the clients' signed cookies survive a restart.
StartImported ==
    /\ Len(users) < MaxUsers
    /\ users' = Bootstrap(users)
    /\ pc' = "serving"
    /\ scenario' = ObserveStart
    /\ UNCHANGED <<movies, ratings, sessions, last>>

\* The process (re)starts as python app.py: the module body, then __main__.
StartMain ==
    /\ Len(users) < MaxUsers
    /\ users' = MainBootstrap(Bootstrap(users))
    /\ pc' = "serving"
    /\ scenario' = ObserveStart
    /\ UNCHANGED <<movies, ratings, sessions, last>>

\* ------------------------------------------------------------- form input
LoginForms ==
    {[method |-> "GET", username |-> "", password |-> ""]}
    \cup [method : {"POST"}, username : Usernames, password : Passwords]

RateForms ==
    {[method |-> "GET", name |-> "", movieList |-> "", stars |-> 0, remarks |-> ""]}
    \cup [method : {"POST"}, name : RaterNames, movieList : {"Inception"},
          stars : StarInputs, remarks : {"fine"}]

MovieForms ==
    {[method |-> "GET", title |-> "", description |-> ""]}
    \cup [method : {"POST"}, title : Titles \cup {""}, description : Descriptions]

\* forms.py: the fields a form requires
LoginFormValid(f) == f.username # "" /\ f.password # ""

RateFormValid(f, choices) ==
    /\ f.name # ""
    /\ f.movieList \in choices
    /\ f.stars \in 1..MaxStars

MovieFormValid(f) == f.title # ""

\* mutant: is_submitted() in its place, the validators never run
validate_on_submit_unvalidated(f, valid) == f.method = "POST"

\* FlaskForm.validate_on_submit(): a submitting method and a valid form
validate_on_submit(f, valid) == f.method = "POST" /\ valid

\* ------------------------------------------------------------- handlers
index(c) ==
    /\ pc = "serving"
    /\ last' = Response(c, "index", "render", "index.html", None,
                        MovieQueryAll(movies), << >>)
    /\ scenario' = Observe(c, "index", NoForm)
    /\ UNCHANGED <<pc, users, movies, ratings, sessions>>

\* mutant: an unknown username is registered as a viewer
login_registers(c, f) ==
    /\ pc = "serving"
    /\ LET user == user_first(users, f.username)
           s1 == session_set(sessions[c], "user", user.username)
           s2 == session_set(s1, "role", user.role)
       IN IF validate_on_submit(f, LoginFormValid(f))
          THEN IF user # NoRow /\ check_password_hash(user.password, f.password)
               THEN /\ sessions' = [sessions EXCEPT ![c] = s2]
                    /\ users' = users
                    /\ last' =
                         IF session_get(s2, "role") = "viewer"
                         THEN Response(c, "login", "redirect", "view",
                                       "Login successful!", << >>, << >>)
                         ELSE IF session_get(s2, "role") = "admin"
                         THEN Response(c, "login", "redirect", "manage_movies",
                                       "Login successful!", << >>, << >>)
                         ELSE Response(c, "login", "render", "login.html",
                                       "Login successful!", << >>, << >>)
               ELSE /\ sessions' = sessions
                    /\ users' = IF user = NoRow
                                THEN Append(users,
                                       [username |-> f.username,
                                        password |-> generate_password_hash(f.password),
                                        role |-> "viewer"])
                                ELSE users
                    /\ last' = Response(c, "login", "render", "login.html",
                                        "Invalid credentials", << >>, << >>)
          ELSE /\ sessions' = sessions
               /\ users' = users
               /\ last' = RenderForm(c, "login", "login.html",
                                  form_errors(f, LoginFormValid(f)), << >>, << >>)
    /\ scenario' = Observe(c, "login", f)
    /\ UNCHANGED <<pc, movies, ratings>>

\* mutant: one session object for the whole process, not one per client
login_shared_session(c, f) ==
    /\ pc = "serving"
    /\ LET user == user_first(users, f.username)
           s1 == session_set(sessions[c], "user", user.username)
           s2 == session_set(s1, "role", user.role)
       IN IF validate_on_submit(f, LoginFormValid(f))
          THEN IF user # NoRow /\ check_password_hash(user.password, f.password)
               THEN /\ sessions' = [x \in Clients |-> s2]
                    /\ last' =
                         IF session_get(s2, "role") = "viewer"
                         THEN Response(c, "login", "redirect", "view",
                                       "Login successful!", << >>, << >>)
                         ELSE IF session_get(s2, "role") = "admin"
                         THEN Response(c, "login", "redirect", "manage_movies",
                                       "Login successful!", << >>, << >>)
                         ELSE Response(c, "login", "render", "login.html",
                                       "Login successful!", << >>, << >>)
               ELSE /\ sessions' = sessions
                    /\ last' = Response(c, "login", "render", "login.html",
                                        "Invalid credentials", << >>, << >>)
          ELSE /\ sessions' = sessions
               /\ last' = RenderForm(c, "login", "login.html",
                                  form_errors(f, LoginFormValid(f)), << >>, << >>)
    /\ scenario' = Observe(c, "login", f)
    /\ UNCHANGED <<pc, users, movies, ratings>>

\* mutant: the two role redirects the wrong way round
login_redirects_swapped(c, f) ==
    /\ pc = "serving"
    /\ LET user == user_first(users, f.username)
           s1 == session_set(sessions[c], "user", user.username)
           s2 == session_set(s1, "role", user.role)
       IN IF validate_on_submit(f, LoginFormValid(f))
          THEN IF user # NoRow /\ check_password_hash(user.password, f.password)
               THEN /\ sessions' = [sessions EXCEPT ![c] = s2]
                    /\ last' =
                         IF session_get(s2, "role") = "viewer"
                         THEN Response(c, "login", "redirect", "manage_movies",
                                       "Login successful!", << >>, << >>)
                         ELSE IF session_get(s2, "role") = "admin"
                         THEN Response(c, "login", "redirect", "view",
                                       "Login successful!", << >>, << >>)
                         ELSE Response(c, "login", "render", "login.html",
                                       "Login successful!", << >>, << >>)
               ELSE /\ sessions' = sessions
                    /\ last' = Response(c, "login", "render", "login.html",
                                        "Invalid credentials", << >>, << >>)
          ELSE /\ sessions' = sessions
               /\ last' = RenderForm(c, "login", "login.html",
                                  form_errors(f, LoginFormValid(f)), << >>, << >>)
    /\ scenario' = Observe(c, "login", f)
    /\ UNCHANGED <<pc, users, movies, ratings>>

login(c, f) ==
    /\ pc = "serving"
    /\ LET user == user_first(users, f.username)
           s1 == session_set(sessions[c], "user", user.username)
           s2 == session_set(s1, "role", user.role)
       IN IF validate_on_submit(f, LoginFormValid(f))
          THEN IF user # NoRow /\ check_password_hash(user.password, f.password)
               THEN /\ sessions' = [sessions EXCEPT ![c] = s2]
                    /\ last' =
                         IF session_get(s2, "role") = "viewer"
                         THEN Response(c, "login", "redirect", "view",
                                       "Login successful!", << >>, << >>)
                         ELSE IF session_get(s2, "role") = "admin"
                         THEN Response(c, "login", "redirect", "manage_movies",
                                       "Login successful!", << >>, << >>)
                         ELSE Response(c, "login", "render", "login.html",
                                       "Login successful!", << >>, << >>)
               ELSE /\ sessions' = sessions
                    /\ last' = Response(c, "login", "render", "login.html",
                                        "Invalid credentials", << >>, << >>)
          ELSE /\ sessions' = sessions
               /\ last' = RenderForm(c, "login", "login.html",
                                  form_errors(f, LoginFormValid(f)), << >>, << >>)
    /\ scenario' = Observe(c, "login", f)
    /\ UNCHANGED <<pc, users, movies, ratings>>

\* mutant: only the user key is popped
logout_keeps_role(c) ==
    /\ pc = "serving"
    /\ sessions' = [sessions EXCEPT ![c] = session_pop(@, "user")]
    /\ last' = Response(c, "logout", "redirect", "index",
                        "You have been logged out.", << >>, << >>)
    /\ scenario' = Observe(c, "logout", NoForm)
    /\ UNCHANGED <<pc, users, movies, ratings>>

\* mutant: only the role key is popped
logout_keeps_user(c) ==
    /\ pc = "serving"
    /\ sessions' = [sessions EXCEPT ![c] = session_pop(@, "role")]
    /\ last' = Response(c, "logout", "redirect", "index",
                        "You have been logged out.", << >>, << >>)
    /\ scenario' = Observe(c, "logout", NoForm)
    /\ UNCHANGED <<pc, users, movies, ratings>>

logout(c) ==
    /\ pc = "serving"
    /\ sessions' = [sessions EXCEPT ![c] = session_pop(session_pop(@, "user"), "role")]
    /\ last' = Response(c, "logout", "redirect", "index",
                        "You have been logged out.", << >>, << >>)
    /\ scenario' = Observe(c, "logout", NoForm)
    /\ UNCHANGED <<pc, users, movies, ratings>>

\* mutant: a fixed list of choices, not the titles stored now
rate_any_title(c, f) ==
    /\ pc = "serving"
    /\ LET choices == Titles
       IN IF validate_on_submit(f, RateFormValid(f, choices))
          THEN /\ Len(ratings) < MaxRatings
               /\ \E now \in Clock :
                    ratings' = Append(ratings,
                                 [id |-> Len(ratings) + 1, name |-> f.name,
                                  movie |-> f.movieList, stars |-> f.stars,
                                  remarks |-> f.remarks, created_at |-> now])
               /\ last' = Response(c, "rate", "redirect", "rate",
                                   "Rating submitted successfully!", << >>, << >>)
          ELSE /\ ratings' = ratings
               /\ \E shown \in RatingsLatestFirst(ratings) :
                    last' = RenderForm(c, "rate", "rate.html",
                                      form_errors(f, RateFormValid(f, choices)),
                                      << >>, shown)
    /\ scenario' = Observe(c, "rate", f)
    /\ UNCHANGED <<pc, users, movies, sessions>>

\* created_at is the clock reading (now) when the row is created
rate(c, f) ==
    /\ pc = "serving"
    /\ LET choices == {m.title : m \in movies}
       IN IF validate_on_submit(f, RateFormValid(f, choices))
          THEN /\ Len(ratings) < MaxRatings
               /\ \E now \in Clock :
                    ratings' = Append(ratings,
                                 [id |-> Len(ratings) + 1, name |-> f.name,
                                  movie |-> f.movieList, stars |-> f.stars,
                                  remarks |-> f.remarks, created_at |-> now])
               /\ last' = Response(c, "rate", "redirect", "rate",
                                   "Rating submitted successfully!", << >>, << >>)
          ELSE /\ ratings' = ratings
               /\ \E shown \in RatingsLatestFirst(ratings) :
                    last' = RenderForm(c, "rate", "rate.html",
                                      form_errors(f, RateFormValid(f, choices)),
                                      << >>, shown)
    /\ scenario' = Observe(c, "rate", f)
    /\ UNCHANGED <<pc, users, movies, sessions>>

manage_movies(c) ==
    /\ pc = "serving"
    /\ last' = IF AccessDenied(sessions[c], "admin")
               THEN DeniedResponse(c, "manage_movies")
               ELSE Response(c, "manage_movies", "render", "manage_movies.html", None,
                             MovieQueryAll(movies), << >>)
    /\ scenario' = Observe(c, "manage_movies", NoForm)
    /\ UNCHANGED <<pc, users, movies, ratings, sessions>>

add_movie(c, f) ==
    /\ pc = "serving"
    /\ IF AccessDenied(sessions[c], "admin")
       THEN /\ movies' = movies
            /\ last' = DeniedResponse(c, "add_movie")
       ELSE IF validate_on_submit(f, MovieFormValid(f))
       THEN /\ NewMovieId(movies) <= MaxMovieId
            /\ movies' = movies \cup {[id |-> NewMovieId(movies), title |-> f.title,
                                       description |-> f.description]}
            /\ last' = Response(c, "add_movie", "redirect", "manage_movies",
                                "Movie added successfully!", << >>, << >>)
       ELSE /\ movies' = movies
            /\ last' = RenderForm(c, "add_movie", "add_movie.html",
                                  form_errors(f, MovieFormValid(f)), << >>, << >>)
    /\ scenario' = Observe(c, "add_movie", f)
    /\ UNCHANGED <<pc, users, ratings, sessions>>

\* mutant: get_or_404 runs before the role test
edit_movie_lookup_first(c, id, f) ==
    /\ pc = "serving"
    /\ LET movie == movie_get(movies, id)
       IN IF movie = NoRow
          THEN /\ movies' = movies
               /\ last' = Response(c, "edit_movie", "abort", "404", None, << >>, << >>)
          ELSE IF AccessDenied(sessions[c], "admin")
          THEN /\ movies' = movies
               /\ last' = DeniedResponse(c, "edit_movie")
          ELSE IF validate_on_submit(f, MovieFormValid(f))
          THEN /\ movies' = (movies \ {movie})
                              \cup {[movie EXCEPT !.title = f.title,
                                                  !.description = f.description]}
               /\ last' = Response(c, "edit_movie", "redirect", "manage_movies",
                                   "Movie updated!", << >>, << >>)
          ELSE /\ movies' = movies
               /\ last' = RenderForm(c, "edit_movie", "edit.html",
                                     form_errors(f, MovieFormValid(f)),
                                     <<movie>>, << >>)
    /\ scenario' = Observe(c, "edit_movie", f)
    /\ UNCHANGED <<pc, users, ratings, sessions>>

edit_movie(c, id, f) ==
    /\ pc = "serving"
    /\ LET movie == movie_get(movies, id)
       IN IF AccessDenied(sessions[c], "admin")
          THEN /\ movies' = movies
               /\ last' = DeniedResponse(c, "edit_movie")
          ELSE IF movie = NoRow
          THEN /\ movies' = movies
               /\ last' = Response(c, "edit_movie", "abort", "404", None, << >>, << >>)
          ELSE IF validate_on_submit(f, MovieFormValid(f))
          THEN /\ movies' = (movies \ {movie})
                              \cup {[movie EXCEPT !.title = f.title,
                                                  !.description = f.description]}
               /\ last' = Response(c, "edit_movie", "redirect", "manage_movies",
                                   "Movie updated!", << >>, << >>)
          ELSE /\ movies' = movies
               /\ last' = RenderForm(c, "edit_movie", "edit.html",
                                     form_errors(f, MovieFormValid(f)),
                                     <<movie>>, << >>)
    /\ scenario' = Observe(c, "edit_movie", f)
    /\ UNCHANGED <<pc, users, ratings, sessions>>

\* mutant: the row is deleted by its title, not by its id
delete_movie_by_title(c, id) ==
    /\ pc = "serving"
    /\ LET movie == movie_get(movies, id)
       IN IF AccessDenied(sessions[c], "admin")
          THEN /\ movies' = movies
               /\ last' = DeniedResponse(c, "delete_movie")
          ELSE IF movie = NoRow
          THEN /\ movies' = movies
               /\ last' = Response(c, "delete_movie", "abort", "404", None, << >>, << >>)
          ELSE /\ movies' = {m \in movies : m.title # movie.title}
               /\ last' = Response(c, "delete_movie", "redirect", "manage_movies",
                                   "Movie deleted!", << >>, << >>)
    /\ scenario' = Observe(c, "delete_movie", NoForm)
    /\ UNCHANGED <<pc, users, ratings, sessions>>

\* mutant: the delete cascades to the ratings that name the movie's title
delete_movie_cascade(c, id) ==
    /\ pc = "serving"
    /\ LET movie == movie_get(movies, id)
       IN IF AccessDenied(sessions[c], "admin")
          THEN /\ movies' = movies
               /\ ratings' = ratings
               /\ last' = DeniedResponse(c, "delete_movie")
          ELSE IF movie = NoRow
          THEN /\ movies' = movies
               /\ ratings' = ratings
               /\ last' = Response(c, "delete_movie", "abort", "404", None, << >>, << >>)
          ELSE /\ movies' = movies \ {movie}
               /\ ratings' = SelectSeq(ratings, LAMBDA r : r.movie # movie.title)
               /\ last' = Response(c, "delete_movie", "redirect", "manage_movies",
                                   "Movie deleted!", << >>, << >>)
    /\ scenario' = Observe(c, "delete_movie", NoForm)
    /\ UNCHANGED <<pc, users, sessions>>

delete_movie(c, id) ==
    /\ pc = "serving"
    /\ LET movie == movie_get(movies, id)
       IN IF AccessDenied(sessions[c], "admin")
          THEN /\ movies' = movies
               /\ last' = DeniedResponse(c, "delete_movie")
          ELSE IF movie = NoRow
          THEN /\ movies' = movies
               /\ last' = Response(c, "delete_movie", "abort", "404", None, << >>, << >>)
          ELSE /\ movies' = movies \ {movie}
               /\ last' = Response(c, "delete_movie", "redirect", "manage_movies",
                                   "Movie deleted!", << >>, << >>)
    /\ scenario' = Observe(c, "delete_movie", NoForm)
    /\ UNCHANGED <<pc, users, ratings, sessions>>

view(c) ==
    /\ pc = "serving"
    /\ last' = IF AccessDenied(sessions[c], "viewer")
               THEN DeniedResponse(c, "view")
               ELSE Response(c, "view", "render", "view.html", None,
                             << >>, RatingQueryAll(ratings))
    /\ scenario' = Observe(c, "view", NoForm)
    /\ UNCHANGED <<pc, users, movies, ratings, sessions>>

Next ==
    \/ StartImported
    \/ StartMain
    \/ \E c \in Clients : index(c)
    \/ \E c \in Clients, f \in LoginForms : login(c, f)
    \/ \E c \in Clients : logout(c)
    \/ \E c \in Clients, f \in RateForms : rate(c, f)
    \/ \E c \in Clients : manage_movies(c)
    \/ \E c \in Clients, f \in MovieForms : add_movie(c, f)
    \/ \E c \in Clients, id \in MovieIds, f \in MovieForms : edit_movie(c, id, f)
    \/ \E c \in Clients, id \in MovieIds : delete_movie(c, id)
    \/ \E c \in Clients : view(c)

Spec == Init /\ [][Next]_vars

\* ================================================================ claims
role_of(s) == session_get(s, "role")

Denied(r) == r.status = "redirect" /\ r.target = "index" /\ r.flash = "Access denied."

AdminRoutes == {"manage_movies", "add_movie", "edit_movie", "delete_movie"}

RequiredRole(route) == IF route \in AdminRoutes THEN "admin" ELSE "viewer"

\* C1: a request to a role-gated route is allowed iff the role in the session it
\* came with equals the route's required role (admin for manage, add_movie,
\* edit_movie, delete_movie; viewer for view); anonymous is denied on all of them.
C1_AllowedIffRoleMatches ==
    last.route \in AdminRoutes \cup {"view"} =>
        (~Denied(last) <=> role_of(last.before) = RequiredRole(last.route))

\* an admin session denied on the viewer-only route
C1_Witness ==
    /\ last.route = "view"
    /\ role_of(last.before) = "admin"
    /\ Denied(last)

\* C2: every step that changes the Movie table is the step of an add_movie,
\* edit_movie or delete_movie request whose client session has role admin.
C2_OnlyAdminChangesMovies ==
    [][movies' # movies =>
          /\ last'.route \in {"add_movie", "edit_movie", "delete_movie"}
          /\ role_of(sessions[last'.client]) = "admin"
          /\ last'.before = sessions[last'.client]]_vars

\* a movie was retitled by an admin while the other client is not an admin
C2_Witness ==
    /\ last.route = "edit_movie"
    /\ last.status = "redirect"
    /\ \E c \in Clients : role_of(sessions[c]) # "admin"
    /\ \E m \in movies : m.title = "Heat"

\* the stored rows a login form's credentials match
MatchingUsers(f) ==
    {i \in 1..Len(users) : /\ users[i].username = f.username
                           /\ check_password_hash(users[i].password, f.password)}

\* C3: a login submission whose username names a stored user and whose password
\* verifies against that user's hash, from any session state, leaves the session
\* holding exactly user = that username and role = that user's stored role, and
\* is answered by the redirect of that role (viewer: view, admin: manage_movies).
C3_ValidLoginSetsStoredRole ==
    [][last'.route = "login" =>
          \A i \in 1..Len(users), p \in Passwords :
              (/\ check_password_hash(users[i].password, p)
               /\ login(last'.client, [method |-> "POST",
                                       username |-> users[i].username,
                                       password |-> p])) =>
                  /\ sessions'[last'.client] =
                         [user |-> users[i].username, role |-> users[i].role]
                  /\ last'.status = "redirect"
                  /\ last'.target = (IF users[i].role = "viewer" THEN "view"
                                     ELSE "manage_movies")]_vars

\* a client authenticated as admin has logged in as viewer
C3_Witness ==
    /\ last.route = "login"
    /\ last.status = "redirect"
    /\ last.target = "view"
    /\ role_of(last.before) = "admin"
    /\ sessions[last.client] = [user |-> "viewer", role |-> "viewer"]

\* C4: a login submission with invalid credentials (unknown username, or a
\* password that does not verify) leaves every session and every table as it
\* was and is answered by the login view rendered again, not by a redirect:
\* a login step that does otherwise is the step of no such submission.
C4_InvalidLoginChangesNothing ==
    [][last'.route = "login" =>
          \/ /\ sessions' = sessions
             /\ users' = users /\ movies' = movies /\ ratings' = ratings
             /\ last'.status = "render"
             /\ last'.target = "login.html"
          \/ \A f \in LoginForms :
                ~(f.method = "POST" /\ MatchingUsers(f) = {} /\ login(last'.client, f))]_vars

\* a failed login by a client that is authenticated: its session is kept
C4_Witness ==
    /\ last.route = "login"
    /\ last.flash = "Invalid credentials"
    /\ role_of(last.before) = "viewer"
    /\ sessions[last.client] = last.before

\* C5: after a logout the session holds neither user nor role and the response
\* redirects home, whatever the session held; a logout on a session that holds
\* neither (anonymous, or just logged out) succeeds and leaves it as it was.
C5_LogoutClearsIdempotently ==
    last.route = "logout" =>
        /\ DOMAIN sessions[last.client] \cap {"user", "role"} = {}
        /\ last.status = "redirect"
        /\ last.target = "index"
        /\ (DOMAIN last.before \cap {"user", "role"} = {}
               => sessions[last.client] = last.before)

\* a logout served to a session that was already anonymous
C5_Witness ==
    /\ last.route = "logout"
    /\ last.before = EmptySession
    /\ sessions[last.client] = EmptySession

\* C6: for an admin session, delete_movie on an id that exists removes exactly
\* the row of that id and redirects to manage_movies; on an id that does not
\* exist it leaves the Movie table as it was and aborts with 404.  Every list
\* rendered by index or manage_movies holds exactly the rows of the table.
C6_DeleteRemovesExactlyOne ==
    [][/\ last'.route = "delete_movie" =>
            \A id \in MovieIds :
                (role_of(sessions[last'.client]) = "admin"
                     /\ delete_movie(last'.client, id)) =>
                    IF \E m \in movies : m.id = id
                    THEN /\ movies' = {m \in movies : m.id # id}
                         /\ last'.status = "redirect"
                         /\ last'.target = "manage_movies"
                    ELSE /\ movies' = movies
                         /\ last'.status = "abort"
                         /\ last'.target = "404"
       /\ (last'.route \in {"index", "manage_movies"} /\ last'.status = "render") =>
            /\ SeqRange(last'.movies) = movies'
            /\ Len(last'.movies) = Cardinality(movies')]_vars

\* one of two movies with the same title has been deleted, the other remains
C6_Witness ==
    /\ last.route = "delete_movie"
    /\ last.status = "redirect"
    /\ movies = {[id |-> 2, title |-> "Inception", description |-> "..."]}

\* C7: a rating submission that passes validation, from any session state,
\* appends exactly one Rating row holding the submitted fields, leaves sessions,
\* users and movies as they were and redirects to rate; every list the rate
\* route renders holds all rows in descending created_at order.
C7_ValidRatingPersistsOne ==
    [][last'.route = "rate" =>
          /\ \A f \in RateForms :
                (validate_on_submit(f, RateFormValid(f, {m.title : m \in movies}))
                     /\ rate(last'.client, f)) =>
                    /\ Len(ratings') = Len(ratings) + 1
                    /\ SubSeq(ratings', 1, Len(ratings)) = ratings
                    /\ ratings'[Len(ratings')].name = f.name
                    /\ ratings'[Len(ratings')].movie = f.movieList
                    /\ ratings'[Len(ratings')].stars = f.stars
                    /\ ratings'[Len(ratings')].remarks = f.remarks
                    /\ sessions' = sessions /\ users' = users /\ movies' = movies
                    /\ last'.status = "redirect"
                    /\ last'.target = "rate"
          /\ last'.status = "render" =>
                /\ IsSortedDesc(last'.ratings)
                /\ SeqRange(last'.ratings) = SeqRange(ratings')
                /\ Len(last'.ratings) = Len(ratings')]_vars

\* an anonymous client is shown two persisted ratings, the later one first
C7_Witness ==
    /\ last.route = "rate"
    /\ last.status = "render"
    /\ last.before = EmptySession
    /\ Len(ratings) = 2
    /\ ratings[1].created_at < ratings[2].created_at
    /\ last.ratings = <<ratings[2], ratings[1]>>

\* exactly the two seeded accounts, with hashed passwords that verify
TwoSeeded(us) ==
    /\ Len(us) = 2
    /\ us[1].username = "admin" /\ us[1].role = "admin"
    /\ us[2].username = "viewer" /\ us[2].role = "viewer"
    /\ check_password_hash(us[1].password, "admin123")
    /\ check_password_hash(us[2].password, "viewer123")
    /\ us[1].password # "admin123" /\ us[2].password # "viewer123"

\* C8: the first start, on the empty store, creates exactly the users admin
\* (role admin) and viewer (role viewer), also when the bootstrap runs twice
\* under __main__; a (re)start on a store already seeded, which serves no
\* request and so leaves the last response as it is, adds no user and changes
\* none.
C8_BootstrapSeedsOnce ==
    [][/\ (pc = "down" /\ pc' = "serving") => (users = << >> /\ TwoSeeded(users'))
       /\ (users # << >> /\ last' = last) => users' = users]_vars

\* the process has started on the empty store and seeded it
C8_Witness ==
    /\ pc = "serving"
    /\ TwoSeeded(users)
    /\ scenario = "booted"

\* C9: once the process has started, the User table is exactly the seeded admin
\* and viewer in every reachable state, whatever requests were served.
C9_UsersImmutable ==
    pc = "serving" => TwoSeeded(users)

\* after logins of both clients, a failed login, a movie added and a rating
C9_Witness ==
    /\ TwoSeeded(users)
    /\ \A c \in Clients : role_of(sessions[c]) # None
    /\ last.route = "login"
    /\ last.flash = "Invalid credentials"
    /\ movies # {}
    /\ ratings # << >>

InceptionOnly == {[id |-> 1, title |-> "Inception", description |-> "..."]}

\* C10: the documented scenario, step by step from the empty store: bootstrap
\* seeds the two users; login admin/admin123 redirects to manage_movies with
\* role admin; add_movie Inception puts it on the manage list; after logout,
\* login viewer/viewer123 redirects to view with role viewer; GET /manage is
\* then answered by a redirect home with "Access denied." and the movies are
\* as they were.
C10_Scenario ==
    /\ scenario = "booted" => TwoSeeded(users) /\ movies = {}
    /\ scenario = "admin_in" =>
          /\ last.status = "redirect" /\ last.target = "manage_movies"
          /\ sessions["c1"] = [user |-> "admin", role |-> "admin"]
    /\ scenario = "added" =>
          /\ last.status = "redirect" /\ last.target = "manage_movies"
          /\ movies = InceptionOnly
    /\ scenario = "listed" =>
          /\ last.status = "render" /\ last.target = "manage_movies.html"
          /\ \E i \in 1..Len(last.movies) : last.movies[i].title = "Inception"
    /\ scenario = "logged_out" =>
          /\ last.status = "redirect" /\ last.target = "index"
          /\ sessions["c1"] = EmptySession
    /\ scenario = "viewer_in" =>
          /\ last.status = "redirect" /\ last.target = "view"
          /\ sessions["c1"] = [user |-> "viewer", role |-> "viewer"]
    /\ scenario = "denied" =>
          /\ Denied(last)
          /\ sessions["c1"] = [user |-> "viewer", role |-> "viewer"]
          /\ movies = InceptionOnly

\* the whole scenario has run, to the denied GET /manage
C10_Witness ==
    /\ scenario = "denied"
    /\ last.route = "manage_movies"
    /\ last.client = "c1"

\* the title values Movie.query.all() yields for the rows of ms
TitlesOf(ms) == {m.title : m \in ms}

\* C11: every request the guard denies (the session's role is not the route's
\* required role) is answered by the redirect home with "Access denied.", never
\* by an abort or a not-found, and leaves the User, Movie and Rating tables and
\* every session, the requester's user and role included, as they were.
C11_DeniedChangesNothing ==
    [][(/\ last'.route \in AdminRoutes \cup {"view"}
        /\ role_of(sessions[last'.client]) # RequiredRole(last'.route)) =>
          /\ last'.status = "redirect"
          /\ last'.target = "index"
          /\ last'.flash = "Access denied."
          /\ users' = users /\ movies' = movies /\ ratings' = ratings
          /\ sessions' = sessions]_vars

\* a viewer was denied the delete of a movie while movies and ratings are stored
C11_Witness ==
    /\ last.route = "delete_movie"
    /\ Denied(last)
    /\ sessions[last.client] = [user |-> "viewer", role |-> "viewer"]
    /\ movies # {}
    /\ ratings # << >>

\* the submissions of each form that fail its validators
InvalidLoginForms == {f \in LoginForms : f.method = "POST" /\ ~LoginFormValid(f)}

InvalidRateForms(choices) ==
    {f \in RateForms : f.method = "POST" /\ ~RateFormValid(f, choices)}

InvalidMovieForms == {f \in MovieForms : f.method = "POST" /\ ~MovieFormValid(f)}

\* the step changed no table and no session and rendered the template
Rerendered(template) ==
    /\ users' = users /\ movies' = movies /\ ratings' = ratings
    /\ sessions' = sessions
    /\ last'.status = "render"
    /\ last'.target = template

\* C12: a submission (POST) that fails validation on login, rate, add_movie or
\* edit_movie (on the last two: from an admin session, and for edit_movie on a
\* stored id, so that validation is reached) changes no table and no session,
\* and is answered by rendering the route's form again, not by a redirect.
C12_InvalidFormChangesNothing ==
    [][/\ last'.route = "login" =>
            \/ Rerendered("login.html")
            \/ \A f \in InvalidLoginForms : ~login(last'.client, f)
       /\ last'.route = "rate" =>
            \/ Rerendered("rate.html")
            \/ \A f \in InvalidRateForms(TitlesOf(movies)) : ~rate(last'.client, f)
       /\ last'.route = "add_movie" =>
            \/ Rerendered("add_movie.html")
            \/ role_of(sessions[last'.client]) # "admin"
            \/ \A f \in InvalidMovieForms : ~add_movie(last'.client, f)
       /\ last'.route = "edit_movie" =>
            \/ Rerendered("edit.html")
            \/ role_of(sessions[last'.client]) # "admin"
            \/ \A id \in {m.id : m \in movies}, f \in InvalidMovieForms :
                  ~edit_movie(last'.client, id, f)]_vars

\* an admin's edit of a stored movie failed validation: the edit form is shown
\* again with its field errors
C12_Witness ==
    /\ last.route = "edit_movie"
    /\ last.status = "render"
    /\ last.target = "edit.html"
    /\ last.errors
    /\ role_of(sessions[last.client]) = "admin"
    /\ last.movies # << >>

\* C13: the Rating table is append-only: every step leaves the rows it held in
\* place and unchanged, and a delete or a retitling of a movie leaves the table
\* exactly as it was, so a rating may name a title no movie has any more.
C13_RatingsAppendOnly ==
    [][\/ ratings' = ratings
       \/ /\ Len(ratings') > Len(ratings)
          /\ SubSeq(ratings', 1, Len(ratings)) = ratings
          /\ last'.route \notin {"delete_movie", "edit_movie"}]_vars

\* a rated movie was deleted: its rating is still stored, naming a title that no
\* movie has
C13_Witness ==
    /\ last.route = "delete_movie"
    /\ last.status = "redirect"
    /\ last.target = "manage_movies"
    /\ \E i \in 1..Len(ratings) : ratings[i].movie \notin TitlesOf(movies)

\* what C14 asks of an admin's edit_movie request on id with form f
EditedAsAsked(id, f) ==
    IF \A m \in movies : m.id # id
    THEN /\ last'.status = "abort"
         /\ last'.target = "404"
         /\ movies' = movies
    ELSE IF f.method = "POST" /\ MovieFormValid(f)
    THEN /\ movies' = {IF m.id = id
                       THEN [id |-> id, title |-> f.title,
                             description |-> f.description]
                       ELSE m : m \in movies}
         /\ Cardinality(movies') = Cardinality(movies)
         /\ {m.id : m \in movies'} = {m.id : m \in movies}
    ELSE movies' = movies

\* C14: an admin's edit_movie on a stored id with a valid submission changes the
\* title and description of that one movie and nothing else of the Movie table
\* (its id, the number of movies and every other movie stay); an edit_movie
\* request, GET or POST, on an id no movie has is answered not-found and creates
\* and changes nothing.
C14_EditChangesOneMovie ==
    [][(/\ last'.route = "edit_movie"
        /\ role_of(sessions[last'.client]) = "admin") =>
          /\ users' = users /\ ratings' = ratings /\ sessions' = sessions
          /\ \A id \in MovieIds, f \in MovieForms :
                EditedAsAsked(id, f) \/ ~edit_movie(last'.client, id, f)]_vars

\* an admin retitled one of two stored movies: both ids are still there
C14_Witness ==
    /\ last.route = "edit_movie"
    /\ last.status = "redirect"
    /\ last.target = "manage_movies"
    /\ role_of(last.before) = "admin"
    /\ Cardinality(movies) = 2
    /\ \A m \in movies : m.title = "Heat"

\* C15: the guard runs before the movie lookup on edit_movie and delete_movie:
\* the whole response to a non-admin request on these routes is fixed by the
\* client, the route and the session alone (the redirect home with "Access
\* denied."), hence the same whether or not a movie of the requested id is
\* stored; a non-admin never gets a not-found from them.
C15_GuardBeforeLookup ==
    (/\ last.route \in {"edit_movie", "delete_movie"}
     /\ role_of(last.before) # "admin") =>
        last = [client |-> last.client, route |-> last.route,
                before |-> last.before, status |-> "redirect",
                target |-> "index", flash |-> "Access denied.",
                errors |-> FALSE, movies |-> << >>, ratings |-> << >>]

\* a viewer asked for the edit of a movie while no movie is stored at all, and
\* was denied rather than told not-found
C15_Witness ==
    /\ last.route = "edit_movie"
    /\ role_of(last.before) = "viewer"
    /\ Denied(last)
    /\ movies = {}

\* C16: in every reachable state each client's session holds both user and role
\* or neither; when it holds them, user is the username of a stored User row and
\* role is that row's stored role.
C16_SessionNamesStoredUser ==
    \A c \in Clients :
        \/ DOMAIN sessions[c] = {}
        \/ /\ DOMAIN sessions[c] = {"user", "role"}
           /\ \E i \in 1..Len(users) :
                 /\ users[i].username = sessions[c].user
                 /\ users[i].role = sessions[c].role

\* one client is logged in as admin, the other as viewer, and a login with
\* wrong credentials has just been turned down
C16_Witness ==
    /\ sessions["c1"] = [user |-> "admin", role |-> "admin"]
    /\ sessions["c2"] = [user |-> "viewer", role |-> "viewer"]
    /\ last.route = "login"
    /\ last.flash = "Invalid credentials"

\* C17: sessions are per client under every interleaving of requests: a step
\* changes at most the session of the client whose login or logout it is, so a
\* login, failed login or logout of one client never changes another client's
\* session, and an admin route is served only on the requester's own admin role.
C17_SessionsIsolated ==
    [][/\ \/ sessions' = sessions
          \/ \A c \in Clients :
                sessions'[c] # sessions[c] =>
                    /\ last'.client = c
                    /\ last'.before = sessions[c]
                    /\ last'.route \in {"login", "logout"}
       /\ (last'.route \in AdminRoutes /\ ~Denied(last')) =>
              role_of(sessions[last'.client]) = "admin"]_vars

\* while one client is logged in as admin, the other, anonymous, was denied the
\* admin page
C17_Witness ==
    /\ last.route = "manage_movies"
    /\ Denied(last)
    /\ sessions[last.client] = EmptySession
    /\ \E c \in Clients \ {last.client} : role_of(sessions[c]) = "admin"

\* the login of a seeded account
SeedLogin(u, p) == [method |-> "POST", username |-> u, password |-> p]

\* C18: the login state machine has no stuck state: while the app serves, every
\* client can log out, and a logout step leaves its session Anonymous; an
\* Anonymous client can become AuthenticatedViewer and can become
\* AuthenticatedAdmin by one successful login; and the only steps that change a
\* session are a successful login and a logout of that client.
C18_LoginStateMachine ==
    /\ [](pc = "serving" =>
            \A c \in Clients :
                /\ ENABLED (logout(c) /\ sessions'[c] = EmptySession)
                /\ sessions[c] = EmptySession =>
                      /\ ENABLED (/\ login(c, SeedLogin("viewer", "viewer123"))
                                  /\ role_of(sessions'[c]) = "viewer")
                      /\ ENABLED (/\ login(c, SeedLogin("admin", "admin123"))
                                  /\ role_of(sessions'[c]) = "admin"))
    /\ [][/\ last'.route = "logout" => sessions'[last'.client] = EmptySession
          /\ \/ sessions' = sessions
             \/ \A c \in Clients :
                   sessions'[c] # sessions[c] =>
                       \/ last'.route = "logout"
                       \/ /\ last'.route = "login"
                          /\ last'.status = "redirect"
                          /\ last'.flash = "Login successful!"]_vars

\* an admin logged out to Anonymous while the other client stays a viewer
C18_Witness ==
    /\ last.route = "logout"
    /\ role_of(last.before) = "admin"
    /\ sessions[last.client] = EmptySession
    /\ \E c \in Clients \ {last.client} : role_of(sessions[c]) = "viewer"

\* C19: the redirect of a successful login targets a route the new session is
\* allowed on: its target is a gated route whose required role is the role just
\* stored; requests of other clients leave that session as it is; and a request
\* of the client to that route while its session still holds the role (followed
\* at once or after other clients' requests) is let through by the guard.
C19_LoginRedirectAllowed ==
    [][/\ (last'.route = "login" /\ last'.status = "redirect") =>
              /\ last'.target \in AdminRoutes \cup {"view"}
              /\ RequiredRole(last'.target) = role_of(sessions'[last'.client])
       /\ (/\ last.route = "login" /\ last.status = "redirect"
           /\ last'.client = last.client
           /\ last'.route = last.target) =>
              /\ ~Denied(last')
              /\ last'.status = "render"
       /\ \A c \in Clients \ {last'.client} : sessions'[c] = sessions[c]
       /\ (/\ last'.route \in {"view", "manage_movies"}
           /\ role_of(sessions[last'.client]) = RequiredRole(last'.route)) =>
              /\ ~Denied(last')
              /\ last'.status = "render"]_vars

\* a viewer was served the page its login redirected to, while the other client
\* logged in as admin
C19_Witness ==
    /\ last.route = "view"
    /\ last.status = "render"
    /\ sessions[last.client] = [user |-> "viewer", role |-> "viewer"]
    /\ \E c \in Clients \ {last.client} :
          sessions[c] = [user |-> "admin", role |-> "admin"]

\* C20: every rating that is persisted names, as its movie, a title some movie
\* had when the submission was processed: rate takes the titles stored at that
\* moment as the only choices, and a submission naming a title no movie has
\* (always so while no movie is stored) persists no rating.
C20_RatingsNameCurrentTitles ==
    [][\/ ratings' = ratings
       \/ /\ last'.route = "rate"
          /\ ratings'[Len(ratings')].movie \in TitlesOf(movies)
          /\ \A f \in {g \in RateForms : g.method = "POST"
                                         /\ g.movieList \notin TitlesOf(movies)} :
                ~rate(last'.client, f)]_vars

\* a rating was submitted while no movie is stored: the form came back with its
\* errors and no rating is stored
C20_Witness ==
    /\ last.route = "rate"
    /\ last.status = "render"
    /\ last.errors
    /\ movies = {}
    /\ ratings = << >>
====
